---- MODULE Spec2Model ----
(***************************************************************************)
(* The profile session lifecycle of flamegraph-middleware: ProfileStorage  *)
(* (storage.js), the collection orchestration of Profiler (profiler.js)    *)
(* and the request handlers of createFlamegraphMiddleware (middleware.js). *)
(*                                                                         *)
(* The specifications share the state:                                     *)
(*   Spec         the middleware as a running program: requests on any     *)
(*                pathname, background collections, timers, the clock;     *)
(*   ConfigSpec   the same program under every maxDuration and             *)
(*                defaultDuration;                                         *)
(*   LiveSpec     the same program with the event loop's fairness, for     *)
(*                what eventually happens;                                 *)
(*   FaultSpec    the same program when rendering or writing the response  *)
(*                of a start may throw;                                    *)
(*   StoreSpec    a ProfileStorage instance driven through its public      *)
(*                methods the way storage.test.js drives it, which adds    *)
(*                deleteProfile and cleanup (the middleware calls          *)
(*                neither);                                                *)
(*   RestoreSpec  the same instance when storeProfile may be called again  *)
(*                for an identifier it was called for before;              *)
(*   ProfilerSpec a process that creates middlewares and drives their      *)
(*                Profiler instances, which share pprof.heap.              *)
(*                                                                         *)
(* Modelling decisions, all taken from the source:                         *)
(*  - Node runs one callback at a time, so every handler body up to its    *)
(*    next await is one atomic action.                                     *)
(*  - now is the value of Date.now(), in abstract milliseconds; a          *)
(*    setTimeout callback runs at some time >= its due time, possibly      *)
(*    late (other callbacks may run first), never early.                   *)
(*  - generateProgressPage and generateErrorPage are string templates and  *)
(*    return; generateResultsPage is awaited and may reject.               *)
(*  - Identifiers are crypto.randomBytes(16): generateId returns an         *)
(*    identifier it has not returned before (a collision has probability   *)
(*    about 2^-128 and is left out).  Every identifier handed to the       *)
(*    store was minted by generateId, as in middleware.js and in           *)
(*    storage.test.js.                                                     *)
(***************************************************************************)
EXTENDS Integers, Sequences, FiniteSets, TLC

\* ------------------------------------------------------------------ bounds
MaxIds == 3
MaxSessions == 2
MaxTime == 3
MaxCapacity == 2
MaxTTL == 2
MaxDurationCfg == 2
MaxProfilers == 2
MaxHeapStarts == 3
MaxWaiting == 2
MaxStores == 3

Ids == 1..MaxIds

VARIABLES
    maxProfiles,    \* this.maxProfiles (storage.js constructor)
    profileTTL,     \* this.profileTTL
    profiles,       \* this.profiles: a Map, kept as the sequence of its entries in key insertion order
    inProgress,     \* this.inProgress: a Map id -> {duration, startTime}
    timers,         \* the pending setTimeout callbacks of storeProfile
    now,            \* Date.now()
    issued,         \* the identifiers generateId has returned
    maxDuration,    \* the maxDuration option of the middleware
    defaultDuration,\* the defaultDuration option
    task,           \* per identifier, the state of collectProfilesInBackground
    storeLog,       \* history: the identifiers passed to storeProfile, in call order
    storedAt,       \* history: when each completed record the Map holds was stored
    removedBy,      \* history: per identifier, what removed its completed record
    last,           \* the last operation and what it returned
    req,            \* the request the last step handled, if it handled one
    heapStarted,    \* this.heapStarted of every Profiler constructed, in order of construction
    heapWaiting,    \* per Profiler, the collectHeapProfile calls waiting on their timer
    pprofHeap       \* pprof.heap: whether it is sampling, and how often start was invoked

vars == <<maxProfiles, profileTTL, profiles, inProgress, timers, now, issued,
          maxDuration, defaultDuration, task, storeLog, storedAt, removedBy,
          last, req, heapStarted, heapWaiting, pprofHeap>>

storeVars == <<profiles, inProgress, timers>>
histVars == <<storeLog, storedAt, removedBy>>
configVars == <<maxProfiles, profileTTL, maxDuration, defaultDuration>>

\* The Profiler instances and pprof.heap.  A middleware's Profiler has
\* heapStarted set when the middleware is created and nothing in
\* middleware.js calls stopHeapProfiling, so the startHeapProfiling call of
\* collectProfiles changes nothing while a middleware runs: the actions of
\* Spec leave these variables alone, and Spec tracks a session's heap branch
\* in task.
profilerVars == <<heapStarted, heapWaiting, pprofHeap>>

\* ------------------------------------------------------------- Map helpers
\* Map.prototype.has / get / delete / set on the sequence of entries.
MapKeys(m) == {m[k].id : k \in 1..Len(m)}

MapHas(m, id) == id \in MapKeys(m)

MapGet(m, id) == m[CHOOSE k \in 1..Len(m) : m[k].id = id]

MapDelete(m, id) == SelectSeq(m, LAMBDA e : e.id # id)

\* set() of a key the Map holds replaces the value and keeps the key's place;
\* a new key goes last.
MapSet(m, entry) ==
    IF MapHas(m, entry.id)
    THEN [k \in 1..Len(m) |-> IF m[k].id = entry.id THEN entry ELSE m[k]]
    ELSE Append(m, entry)

\* The data of session id: Buffer.from(`cpu${i}`), Buffer.from(`heap${i}`).
cpuBytes(id) == 10 * id + 1
heapBytes(id) == 10 * id + 2
payload(id) == [cpu |-> cpuBytes(id), heap |-> heapBytes(id)]
NoData == [cpu |-> 0, heap |-> 0]

\* --------------------------------------------------------- ProfileStorage
\* generateId: the identifier crypto.randomBytes returns next, none once the
\* model's identifiers are used up.  The code never orders or inspects
\* identifiers, so the model names them in the order they are minted.
generateId == {id \in Ids \ issued : \A j \in Ids \ issued : id <= j}

\* markInProgress(id, metadata)
markInProgress(id, duration) ==
    inProgress' = [i \in DOMAIN inProgress \cup {id} |->
                     IF i = id THEN [duration |-> duration, startTime |-> now]
                     ELSE inProgress[i]]

isInProgress(id) == id \in DOMAIN inProgress

getInProgressMetadata(id) == inProgress[id]

\* Mutant: the capacity test lets the Map grow one past maxProfiles.
oldestId_AboveCapacity(m, cap) == IF Len(m) > cap /\ Len(m) > 0 THEN {m[1].id} ELSE {}

\* Mutant: the newest entry is evicted instead of the oldest.
oldestId_Newest(m, cap) == IF Len(m) >= cap /\ Len(m) > 0 THEN {m[Len(m)].id} ELSE {}

\* The identifiers storeProfile evicts: this.profiles.keys().next().value when
\* size >= maxProfiles (none from an empty Map: delete(undefined) does nothing).
oldestId(m, cap) == IF Len(m) >= cap /\ Len(m) > 0 THEN {m[1].id} ELSE {}

\* Mutant: the in-progress entry is not removed.
storeProfile_KeepsInProgress(id, data) ==
    LET evicted == oldestId(profiles, maxProfiles)
        kept == SelectSeq(profiles, LAMBDA e : e.id \notin evicted)
        h == Len(storeLog) + 1
        entry == [id |-> id, data |-> data, expiresAt |-> now + profileTTL, timeout |-> h]
    IN  /\ inProgress' = inProgress
        /\ timers' = timers \cup {[h |-> h, id |-> id, fireAt |-> now + profileTTL]}
        /\ profiles' = MapSet(kept, entry)

\* Mutant: a call that evicts returns before it removes the in-progress entry.
storeProfile_EvictionSkipsInProgress(id, data) ==
    LET evicted == oldestId(profiles, maxProfiles)
        kept == SelectSeq(profiles, LAMBDA e : e.id \notin evicted)
        h == Len(storeLog) + 1
        entry == [id |-> id, data |-> data, expiresAt |-> now + profileTTL, timeout |-> h]
    IN  /\ inProgress' = IF evicted = {} THEN [i \in DOMAIN inProgress \ {id} |-> inProgress[i]]
                         ELSE inProgress
        /\ timers' = timers \cup {[h |-> h, id |-> id, fireAt |-> now + profileTTL]}
        /\ profiles' = MapSet(kept, entry)

\* Mutant: the removal is never scheduled.
storeProfile_NoTimer(id, data) ==
    LET evicted == oldestId(profiles, maxProfiles)
        kept == SelectSeq(profiles, LAMBDA e : e.id \notin evicted)
        h == Len(storeLog) + 1
        entry == [id |-> id, data |-> data, expiresAt |-> now + profileTTL, timeout |-> h]
    IN  /\ inProgress' = [i \in DOMAIN inProgress \ {id} |-> inProgress[i]]
        /\ timers' = timers
        /\ profiles' = MapSet(kept, entry)

\* storeProfile(id, data): the in-progress entry goes, the oldest entry is
\* evicted at capacity (its timer is left pending), the removal is scheduled
\* and the entry is set.
storeProfile(id, data) ==
    LET evicted == oldestId(profiles, maxProfiles)
        kept == SelectSeq(profiles, LAMBDA e : e.id \notin evicted)
        h == Len(storeLog) + 1
        entry == [id |-> id, data |-> data, expiresAt |-> now + profileTTL, timeout |-> h]
    IN  /\ inProgress' = [i \in DOMAIN inProgress \ {id} |-> inProgress[i]]
        /\ timers' = timers \cup {[h |-> h, id |-> id, fireAt |-> now + profileTTL]}
        /\ profiles' = MapSet(kept, entry)

\* Mutant: the read-time expiry check is missing.
isExpired_Never(entry, t) == FALSE

\* Date.now() > entry.expiresAt
isExpired(entry, t) == t > entry.expiresAt

\* Mutant: the data of the Map's first entry is returned, whatever the key.
getProfileData_FirstEntry(id) ==
    IF MapHas(profiles, id) /\ ~isExpired(MapGet(profiles, id), now)
    THEN profiles[1].data ELSE NoData

\* getProfile(id): what it returns (NoData for null) ...
getProfileFound(id) == MapHas(profiles, id) /\ ~isExpired(MapGet(profiles, id), now)

getProfileData(id) == IF getProfileFound(id) THEN MapGet(profiles, id).data ELSE NoData

\* ... and what it does to the Map: an expired entry is deleted, its timer is
\* not cleared.
getProfile(id) ==
    profiles' = IF MapHas(profiles, id) /\ isExpired(MapGet(profiles, id), now)
                THEN MapDelete(profiles, id) ELSE profiles

\* Mutant: the entry's timeout is not cleared.
deleteProfile_KeepsTimer(id) ==
    /\ timers' = timers
    /\ profiles' = MapDelete(profiles, id)

\* deleteProfile(id)
deleteProfile(id) ==
    /\ timers' = IF MapHas(profiles, id)
                 THEN {t \in timers : t.h # MapGet(profiles, id).timeout}
                 ELSE timers
    /\ profiles' = MapDelete(profiles, id)

\* Mutant: the in-progress Map is not cleared.
cleanup_KeepsInProgress ==
    /\ timers' = {t \in timers : \A k \in 1..Len(profiles) : profiles[k].timeout # t.h}
    /\ profiles' = <<>>
    /\ inProgress' = inProgress

\* cleanup(): clears the timers of the entries the Map holds, then both Maps.
cleanup ==
    /\ timers' = {t \in timers : \A k \in 1..Len(profiles) : profiles[k].timeout # t.h}
    /\ profiles' = <<>>
    /\ inProgress' = [i \in {} |-> 0]

\* The callback storeProfile scheduled for t.id: this.profiles.delete(id).
timerCallback(t) ==
    /\ timers' = timers \ {t}
    /\ profiles' = MapDelete(profiles, t.id)

\* ------------------------------------------------------------ the profiler
\* The state of one collectProfilesInBackground call.  stage: "none" (never
\* launched), "collect" (awaiting collectProfiles), "encode" (awaiting the two
\* encodeProfile calls), "stored" (storeProfile was called), "failed" (the
\* catch block ran).  cpu and heap are the two promises of Promise.all while
\* it is pending; once it has settled they are not read again.
NoTask == [stage |-> "none", cpu |-> "none", heap |-> "none"]

Failed == [stage |-> "failed", cpu |-> "none", heap |-> "none"]

\* Mutant: the collection has run to its end before the caller goes on, as
\* if it were awaited.
collectProfiles_Awaited ==
    [stage |-> "encode", cpu |-> "done", heap |-> "done"]

\* profiler.collectProfiles(duration) up to its await: collectCPUProfile has
\* called pprof.time.profile, collectHeapProfile has set its timer.
collectProfiles ==
    [stage |-> "collect", cpu |-> "running", heap |-> "waiting"]

\* When the heap branch's setTimeout(resolve, duration) comes due: it is set in
\* the step that marks the session in progress.
heapDue(id) == inProgress[id].startTime + inProgress[id].duration

\* Mutant: the join resolves as soon as either branch has.
joined_EitherDone(t) ==
    IF t.cpu = "done" \/ t.heap = "done" THEN [t EXCEPT !.stage = "encode"] ELSE t

\* Promise.all of collectProfiles: resolved once both branches are.
joined(t) == IF t.cpu = "done" /\ t.heap = "done" THEN [t EXCEPT !.stage = "encode"] ELSE t

\* ----------------------------------------------------------- the handlers
\* What an operation returned.  status is the HTTP status (0 when no response
\* was written), page the representation sent, next the number of times the
\* middleware's next() continuation was invoked; wasInProgress
\* and evicted describe a storeProfile call: whether its identifier was in
\* progress when it was called, and the identifiers it evicted (for cleanup:
\* whether any identifier was in progress).
\* query is the duration parameter of a start request (NoQuery elsewhere).
NoQuery == [kind |-> "none", n |-> 0]

Result(op, id, status, page, remaining, found, data) ==
    [op |-> op, id |-> id, status |-> status, page |-> page, remaining |-> remaining,
     found |-> found, data |-> data, wasInProgress |-> FALSE, evicted |-> {},
     query |-> NoQuery, next |-> 0]

\* An operation that returns nothing.
Did(op, id) == Result(op, id, 0, "none", 0, FALSE, NoData)

\* The query's duration parameter: absent (or empty), text that neither
\* parseDuration nor parseInt reads, or text that reads as n milliseconds.
Queries ==
    {[kind |-> "absent", n |-> 0], [kind |-> "garbage", n |-> 0]}
    \cup {[kind |-> "number", n |-> n] : n \in -1..(MaxDurationCfg + 1)}

\* Mutant: the operands of the subtraction are swapped.
remainingTime_Swapped(meta, t) ==
    LET elapsed == t - meta.startTime
    IN  IF elapsed - meta.duration > 0 THEN elapsed - meta.duration ELSE 0

\* Mutant: elapsed is taken from the epoch, not from startTime.
remainingTime_FromZero(meta, t) ==
    IF meta.duration - t > 0 THEN meta.duration - t ELSE 0

\* Mutant: the elapsed time is not subtracted.
remainingTime_NoElapsed(meta, t) == meta.duration

\* Math.max(0, metadata.duration - elapsed), elapsed = Date.now() - metadata.startTime
remainingTime(meta, t) ==
    LET elapsed == t - meta.startTime
    IN  IF meta.duration - elapsed > 0 THEN meta.duration - elapsed ELSE 0

\* History, read off the step's Maps: the storeProfile calls, what removed a
\* completed record, and when the records the Map now holds were stored.
History(cause, stored) ==
    /\ storeLog' = storeLog \o stored
    /\ removedBy' = [i \in Ids |->
                       IF MapHas(profiles, i) /\ ~MapHas(profiles', i) THEN cause
                       ELSE removedBy[i]]
    /\ storedAt' = [i \in MapKeys(profiles') |->
                      IF i \in DOMAIN storedAt /\ \A k \in 1..Len(stored) : stored[k] # i
                      THEN storedAt[i] ELSE now]

\* Mutant: an absent parameter falls back to the ceiling, not to the default.
parsedDuration_DefaultIsMax(q) == IF q.kind = "absent" THEN maxDuration ELSE q.n

\* The duration handleStartProfiling works with: what parseDuration or
\* parseInt read from the parameter, defaultDuration when it is absent.
parsedDuration(q) == IF q.kind = "absent" THEN defaultDuration ELSE q.n

\* Mutant: the ceiling is not checked.
validateDuration_NoCeiling(q) ==
    IF q.kind = "garbage" THEN "invalid"
    ELSE IF parsedDuration(q) <= 0 THEN "notpositive"
    ELSE "ok"

\* Mutant: the lower bound is tested with < instead of <=.
validateDuration_ZeroAccepted(q) ==
    IF q.kind = "garbage" THEN "invalid"
    ELSE IF parsedDuration(q) < 0 THEN "notpositive"
    ELSE IF parsedDuration(q) > maxDuration THEN "exceeds"
    ELSE "ok"

\* The checks of handleStartProfiling in the order the code makes them: the
\* error it answers with, "ok" when the duration is accepted.
validateDuration(q) ==
    IF q.kind = "garbage" THEN "invalid"
    ELSE IF parsedDuration(q) <= 0 THEN "notpositive"
    ELSE IF parsedDuration(q) > maxDuration THEN "exceeds"
    ELSE "ok"

\* Mutant: the identifier is minted before the duration is validated.
handleStartProfiling_MintsFirst(q) ==
    \E id \in generateId :
        /\ issued' = issued \cup {id}
        /\ IF validateDuration(q) # "ok" THEN
               /\ last' = [Result("start", 0, 400, validateDuration(q), 0, FALSE, NoData)
                              EXCEPT !.query = q]
               /\ UNCHANGED <<storeVars, task>>
           ELSE
               /\ markInProgress(id, parsedDuration(q))
               /\ task' = [task EXCEPT ![id] = collectProfiles]
               /\ last' = [Result("start", id, 200, "progress", parsedDuration(q), FALSE, NoData)
                              EXCEPT !.query = q]
               /\ UNCHANGED <<profiles, timers>>

\* handleStartProfiling(req, res, query): it has no await, so the response is
\* written in the step that launches collectProfilesInBackground.
handleStartProfiling(q) ==
    IF validateDuration(q) # "ok" THEN
        /\ last' = [Result("start", 0, 400, validateDuration(q), 0, FALSE, NoData)
                       EXCEPT !.query = q]
        /\ UNCHANGED <<storeVars, issued, task>>
    ELSE \E id \in generateId :
        /\ issued' = issued \cup {id}
        /\ markInProgress(id, parsedDuration(q))
        /\ task' = [task EXCEPT ![id] = collectProfiles]
        /\ last' = [Result("start", id, 200, "progress", parsedDuration(q), FALSE, NoData)
                       EXCEPT !.query = q]
        /\ UNCHANGED <<profiles, timers>>

\* handleStartProfiling(req, res, query) when a statement of its try block
\* after the launch throws (generateProgressPage, res.writeHead, res.end):
\* the identifier was minted, the session marked in progress and the
\* collection launched before the catch block answers 500 with 'Failed to
\* start profiling'; the catch block undoes nothing.  The response names no
\* identifier.
handleStartProfilingThrows(q) ==
    IF validateDuration(q) # "ok" THEN
        /\ last' = [Result("start", 0, 400, validateDuration(q), 0, FALSE, NoData)
                       EXCEPT !.query = q]
        /\ UNCHANGED <<storeVars, issued, task>>
    ELSE \E id \in generateId :
        /\ issued' = issued \cup {id}
        /\ markInProgress(id, parsedDuration(q))
        /\ task' = [task EXCEPT ![id] = collectProfiles]
        /\ last' = [Result("start", 0, 500, "startfailed", 0, FALSE, NoData)
                       EXCEPT !.query = q]
        /\ UNCHANGED <<profiles, timers>>

\* The outcomes of await generateResultsPage(...): it resolves (TRUE) or it
\* rejects and the catch block answers 500 (FALSE).
RenderOutcomes == BOOLEAN

\* Mutant: the completed record is read from the Map without getProfile's
\* expiry check.
resultPage_NoExpiry(id, rendered) ==
    IF isInProgress(id) THEN
        LET remaining == remainingTime(getInProgressMetadata(id), now)
        IN  IF remaining > 0
            THEN Result("poll", id, 200, "progress", remaining, FALSE, NoData)
            ELSE Result("poll", id, 202, "processing", 0, FALSE, NoData)
    ELSE IF ~MapHas(profiles, id) THEN Result("poll", id, 404, "notfound", 0, FALSE, NoData)
    ELSE IF rendered THEN Result("poll", id, 200, "results", 0, TRUE, MapGet(profiles, id).data)
    ELSE Result("poll", id, 500, "error", 0, TRUE, NoData)

\* Mutant: an identifier whose record is gone while its removal timer is
\* still pending (an evicted one) is answered 410, not 404.
resultPage_LeaksEviction(id, rendered) ==
    IF isInProgress(id) THEN
        LET remaining == remainingTime(getInProgressMetadata(id), now)
        IN  IF remaining > 0
            THEN Result("poll", id, 200, "progress", remaining, FALSE, NoData)
            ELSE Result("poll", id, 202, "processing", 0, FALSE, NoData)
    ELSE IF ~getProfileFound(id) THEN
        IF ~MapHas(profiles, id) /\ \E t \in timers : t.id = id
        THEN Result("poll", id, 410, "gone", 0, FALSE, NoData)
        ELSE Result("poll", id, 404, "notfound", 0, FALSE, NoData)
    ELSE IF rendered THEN Result("poll", id, 200, "results", 0, TRUE, getProfileData(id))
    ELSE Result("poll", id, 500, "error", 0, TRUE, NoData)

\* The response of handleResultPage(req, res, profileId); rendered says whether
\* generateResultsPage resolved (it is awaited inside the try block).
resultPage(id, rendered) ==
    IF isInProgress(id) THEN
        LET remaining == remainingTime(getInProgressMetadata(id), now)
        IN  IF remaining > 0
            THEN Result("poll", id, 200, "progress", remaining, FALSE, NoData)
            ELSE Result("poll", id, 202, "processing", 0, FALSE, NoData)
    ELSE IF ~getProfileFound(id) THEN Result("poll", id, 404, "notfound", 0, FALSE, NoData)
    ELSE IF rendered THEN Result("poll", id, 200, "results", 0, TRUE, getProfileData(id))
    ELSE Result("poll", id, 500, "error", 0, TRUE, NoData)

\* handleResultPage(req, res, profileId): getProfile is called only for an
\* identifier that is not in progress.
handleResultPage(id, rendered) ==
    /\ last' = resultPage(id, rendered)
    /\ IF isInProgress(id) THEN UNCHANGED <<profiles, histVars>>
       ELSE getProfile(id) /\ History("aged", <<>>)
    /\ UNCHANGED <<inProgress, timers>>

\* collectProfilesInBackground after both encodeProfile calls resolved:
\* storage.storeProfile(profileId, {cpu, heap}).
storeCollected(id) ==
    /\ storeProfile(id, payload(id))
    /\ History("evicted", <<id>>)
    /\ last' = [Did("storeProfile", id) EXCEPT
                   !.wasInProgress = isInProgress(id),
                   !.evicted = MapKeys(profiles) \ MapKeys(profiles')]

\* ------------------------------------------------------------ the routing
\* A pathname is the sequence of its pieces: "/", a run of text, or the
\* hexadecimal text naming identifier n.  The pieces are chosen so that no
\* piece is a prefix of another: two pathnames are equal, or one a prefix of
\* the other, as strings exactly when they are so as sequences.
Slash == [s |-> "/", n |-> 0]

Text(t) == [s |-> t, n |-> 0]

Hex(id) == [s |-> "hex", n |-> id]

\* No request.
NoReq == [pathname |-> <<>>]

\* basePath = '/flamegraph'
basePath == <<Slash, Text("flamegraph")>>

\* The pathnames requested: the two start routes, a result route per
\* identifier, and pathnames around them (a sibling that continues the base
\* path's text, other roots, other and malformed subpaths).
Paths ==
    {basePath, basePath \o <<Slash>>}
    \cup {basePath \o <<Slash, Text("result"), Slash, Hex(id)>> : id \in Ids}
    \cup {<<Slash>>, <<Slash, Text("other")>>, <<Slash, Text("result"), Slash, Hex(1)>>}
    \cup {basePath \o <<Text("s")>>,
          basePath \o <<Slash, Text("other")>>,
          basePath \o <<Slash, Text("result")>>,
          basePath \o <<Slash, Text("result"), Slash, Text("xyz")>>,
          basePath \o <<Slash, Text("result"), Slash, Hex(1), Slash>>}

\* String.prototype.startsWith and slice(k)
startsWith(p, b) == Len(p) >= Len(b) /\ SubSeq(p, 1, Len(b)) = b

slice(p, k) == SubSeq(p, k + 1, Len(p))

\* pathname.slice(basePath.length) || '/'
subPath(p) == IF slice(p, Len(basePath)) = <<>> THEN <<Slash>> ELSE slice(p, Len(basePath))

\* subPath.match(/^\/result\/([a-f0-9]+)$/)
resultMatch(sp) ==
    /\ Len(sp) = 4
    /\ sp[1] = Slash /\ sp[2] = Text("result") /\ sp[3] = Slash
    /\ sp[4].s = "hex"

\* Mutant: a path under the base path that is no route is handed to next().
route_UnknownFallsThrough(p) ==
    IF ~startsWith(p, basePath) THEN [handler |-> "next", id |-> 0]
    ELSE IF subPath(p) = <<Slash>> \/ subPath(p) = <<>> THEN [handler |-> "start", id |-> 0]
    ELSE IF resultMatch(subPath(p)) THEN [handler |-> "result", id |-> subPath(p)[4].n]
    ELSE [handler |-> "next", id |-> 0]

\* The branch flamegraphMiddleware takes for a pathname.
route(p) ==
    IF ~startsWith(p, basePath) THEN [handler |-> "next", id |-> 0]
    ELSE IF subPath(p) = <<Slash>> \/ subPath(p) = <<>> THEN [handler |-> "start", id |-> 0]
    ELSE IF resultMatch(subPath(p)) THEN [handler |-> "result", id |-> subPath(p)[4].n]
    ELSE [handler |-> "notfound", id |-> 0]

\* The requested pathnames by the branch they take.
Routed(handler) == {p \in Paths : route(p).handler = handler}

StartPaths == Routed("start")

ResultPaths == Routed("result")

NextPaths == Routed("next")

UnknownPaths == Routed("notfound")

\* flamegraphMiddleware(req, res, next)
flamegraphMiddleware(p, q, rendered) ==
    /\ req' = [pathname |-> p]
    /\ IF route(p).handler = "next" THEN
           /\ last' = [Did("next", 0) EXCEPT !.next = 1]
           /\ UNCHANGED <<storeVars, issued, task, histVars>>
       ELSE IF route(p).handler = "start" THEN
           /\ handleStartProfiling(q)
           /\ UNCHANGED histVars
       ELSE IF route(p).handler = "result" THEN
           /\ handleResultPage(route(p).id, rendered)
           /\ UNCHANGED <<issued, task>>
       ELSE
           /\ last' = Result("unknown", 0, 404, "unknownpath", 0, FALSE, NoData)
           /\ UNCHANGED <<storeVars, issued, task, histVars>>

\* Mutant: the catch block also drops the session's in-progress entry.
catchCollectionError_DropsRecord(id) ==
    /\ task' = [task EXCEPT ![id] = Failed]
    /\ inProgress' = [i \in DOMAIN inProgress \ {id} |-> inProgress[i]]
    /\ UNCHANGED <<profiles, timers>>

\* Mutant: a failure also fails every other collection in flight.
catchCollectionError_FailsAll(id) ==
    /\ task' = [i \in Ids |->
                   IF i = id \/ task[i].stage \in {"collect", "encode"} THEN Failed ELSE task[i]]
    /\ UNCHANGED storeVars

\* Mutant: the catch block launches the collection again.
catchCollectionError_Retries(id) ==
    /\ task' = [task EXCEPT ![id] = collectProfiles]
    /\ UNCHANGED storeVars

\* The catch block of collectProfilesInBackground: the error is logged and
\* the store is not touched.
catchCollectionError(id) ==
    /\ task' = [task EXCEPT ![id] = Failed]
    /\ UNCHANGED storeVars

\* ------------------------------------------------------------------ Init
InitState ==
    /\ profiles = <<>>
    /\ inProgress = [i \in {} |-> 0]
    /\ timers = {}
    /\ now = 0
    /\ issued = {}
    /\ task = [i \in Ids |-> NoTask]
    /\ storeLog = <<>>
    /\ storedAt = [i \in {} |-> 0]
    /\ removedBy = [i \in Ids |-> "none"]
    /\ last = Did("none", 0)
    /\ req = NoReq

\* No Profiler was constructed.
NoProfiler ==
    /\ heapStarted = <<>>
    /\ heapWaiting = <<>>
    /\ pprofHeap = [sampling |-> FALSE, starts |-> 0]

\* const profiler = new Profiler(...); profiler.startHeapProfiling()
ProfilerCreated ==
    /\ heapStarted = <<TRUE>>
    /\ heapWaiting = <<0>>
    /\ pprofHeap = [sampling |-> TRUE, starts |-> 1]

\* createFlamegraphMiddleware(options): any capacity and time-to-live.
Init ==
    /\ maxProfiles \in 1..MaxCapacity
    /\ profileTTL \in 1..MaxTTL
    /\ maxDuration = MaxDurationCfg
    /\ defaultDuration = 1
    /\ InitState
    /\ ProfilerCreated

\* createFlamegraphMiddleware(options): any maxDuration and defaultDuration;
\* the options are not validated, so the default may be 0 or above the
\* ceiling.
ConfigInit ==
    /\ maxProfiles = MaxCapacity
    /\ profileTTL = MaxTTL
    /\ maxDuration \in 1..MaxDurationCfg
    /\ defaultDuration \in 0..(MaxDurationCfg + 1)
    /\ InitState
    /\ ProfilerCreated

\* createFlamegraphMiddleware(options) with room for every session (light
\* load: the capacity is not reached), any time-to-live.
LiveInit ==
    /\ maxProfiles = MaxCapacity
    /\ profileTTL \in 1..MaxTTL
    /\ maxDuration = MaxDurationCfg
    /\ defaultDuration = 1
    /\ InitState
    /\ ProfilerCreated

\* new ProfileStorage({maxProfiles, profileTTL}) on its own.
StoreInit ==
    /\ maxProfiles \in 1..MaxCapacity
    /\ profileTTL \in 1..MaxTTL
    /\ maxDuration = MaxDurationCfg
    /\ defaultDuration = 1
    /\ InitState
    /\ NoProfiler

\* A process before it creates its first middleware.
ProfilerInit ==
    /\ maxProfiles = MaxCapacity
    /\ profileTTL = MaxTTL
    /\ maxDuration = MaxDurationCfg
    /\ defaultDuration = 1
    /\ InitState
    /\ NoProfiler

\* --------------------------------------------------- actions of both specs
\* The clock advances.
Tick ==
    /\ now < MaxTime
    /\ now' = now + 1
    /\ last' = Did("tick", 0)
    /\ req' = NoReq
    /\ UNCHANGED <<configVars, profilerVars, storeVars, issued, task, histVars>>

\* A removal scheduled by storeProfile runs, at its due time or later.
TimerFires ==
    \E t \in timers :
        /\ now >= t.fireAt
        /\ timerCallback(t)
        /\ History("aged", <<>>)
        /\ last' = Did("timer", t.id)
        /\ req' = NoReq
        /\ UNCHANGED <<configVars, profilerVars, inProgress, now, issued, task>>

\* ------------------------------------------------- actions of the middleware
\* A request the middleware routes to handleStartProfiling: GET <base>?duration=...
StartRequest ==
    \E p \in StartPaths, q \in Queries :
        /\ Cardinality(issued) < MaxSessions
        /\ flamegraphMiddleware(p, q, TRUE)
        /\ UNCHANGED <<configVars, profilerVars, now>>

\* A request it routes to handleResultPage: GET <base>/result/<id>
PollRequest ==
    \E p \in ResultPaths, rendered \in RenderOutcomes :
        /\ flamegraphMiddleware(p, NoQuery, rendered)
        /\ UNCHANGED <<configVars, profilerVars, now>>

\* A request it hands to next().
PassedToNext ==
    \E p \in NextPaths :
        /\ flamegraphMiddleware(p, NoQuery, TRUE)
        /\ UNCHANGED <<configVars, profilerVars, now>>

\* A request it answers with sendError(res, 'Not found', 404).
UnknownPath ==
    \E p \in UnknownPaths :
        /\ flamegraphMiddleware(p, NoQuery, TRUE)
        /\ UNCHANGED <<configVars, profilerVars, now>>

\* pprof.time.profile resolves (an external capability: at any time).
CpuResolved ==
    \E id \in Ids :
        /\ task[id].stage = "collect" /\ task[id].cpu = "running"
        /\ task' = [task EXCEPT ![id] = joined([task[id] EXCEPT !.cpu = "done"])]
        /\ last' = Did("cpu", id)
        /\ req' = NoReq
        /\ UNCHANGED <<configVars, profilerVars, storeVars, now, issued, histVars>>

\* pprof.time.profile rejects: Promise.all rejects, the catch block runs.
CpuRejected ==
    \E id \in Ids :
        /\ task[id].stage = "collect" /\ task[id].cpu = "running"
        /\ catchCollectionError(id)
        /\ last' = Did("cpu", id)
        /\ req' = NoReq
        /\ UNCHANGED <<configVars, profilerVars, now, issued, histVars>>

\* collectHeapProfile's timer runs and pprof.heap.profile() returns or throws.
HeapSnapshot ==
    \E id \in Ids, ok \in BOOLEAN :
        /\ task[id].stage = "collect" /\ task[id].heap = "waiting"
        /\ now >= heapDue(id)
        /\ IF ok
           THEN /\ task' = [task EXCEPT ![id] = joined([task[id] EXCEPT !.heap = "done"])]
                /\ UNCHANGED storeVars
           ELSE catchCollectionError(id)
        /\ last' = Did("heap", id)
        /\ req' = NoReq
        /\ UNCHANGED <<configVars, profilerVars, now, issued, histVars>>

\* Both encodeProfile calls resolved: the profile is stored.
EncodedAndStored ==
    \E id \in Ids :
        /\ task[id].stage = "encode"
        /\ task' = [task EXCEPT ![id].stage = "stored"]
        /\ storeCollected(id)
        /\ req' = NoReq
        /\ UNCHANGED <<configVars, profilerVars, now, issued>>

\* An encodeProfile call rejects: the catch block runs, nothing is stored.
EncodeFailed ==
    \E id \in Ids :
        /\ task[id].stage = "encode"
        /\ catchCollectionError(id)
        /\ last' = Did("encode", id)
        /\ req' = NoReq
        /\ UNCHANGED <<configVars, profilerVars, now, issued, histVars>>

Next ==
    \/ StartRequest
    \/ PollRequest
    \/ PassedToNext
    \/ UnknownPath
    \/ CpuResolved
    \/ CpuRejected
    \/ HeapSnapshot
    \/ EncodedAndStored
    \/ EncodeFailed
    \/ TimerFires
    \/ Tick

Spec == Init /\ [][Next]_vars

\* The same program under every configuration of the durations.
ConfigSpec == ConfigInit /\ [][Next]_vars

\* The program as the event loop schedules it: the clock advances, a timer
\* that is due runs, a promise that was awaited settles and its continuation
\* runs.  Requests are not owed: no client has to send one.
Fairness ==
    /\ WF_vars(Tick)
    /\ WF_vars(TimerFires)
    /\ WF_vars(HeapSnapshot)
    /\ WF_vars(CpuResolved \/ CpuRejected)
    /\ WF_vars(EncodedAndStored \/ EncodeFailed)

LiveSpec == LiveInit /\ [][Next]_vars /\ Fairness

\* A start request whose response cannot be rendered or written: the try
\* block of handleStartProfiling throws after the launch.
StartThrows ==
    \E p \in StartPaths, q \in Queries :
        /\ Cardinality(issued) < MaxSessions
        /\ validateDuration(q) = "ok"
        /\ req' = [pathname |-> p]
        /\ handleStartProfilingThrows(q)
        /\ UNCHANGED <<configVars, profilerVars, now, histVars>>

FaultNext ==
    \/ Next
    \/ StartThrows

\* The program when the statements that render and write a response may
\* throw, in a start as well as in a poll.
FaultSpec == Init /\ [][FaultNext]_vars

\* ------------------------------------ actions of a direct user of the store
\* const id = storage.generateId()
ApiGenerateId ==
    \E id \in generateId :
        /\ issued' = issued \cup {id}
        /\ last' = Did("generateId", id)
        /\ req' = NoReq
        /\ UNCHANGED <<configVars, profilerVars, storeVars, now, task, histVars>>

\* storage.markInProgress(id, {duration}) of a minted identifier not yet stored
ApiMarkInProgress ==
    \E id \in issued :
        /\ \A k \in 1..Len(storeLog) : storeLog[k] # id
        /\ markInProgress(id, defaultDuration)
        /\ last' = Did("markInProgress", id)
        /\ req' = NoReq
        /\ UNCHANGED <<configVars, profilerVars, profiles, timers, now, issued, task, histVars>>

\* storage.storeProfile(id, data) of a minted identifier not yet stored
ApiStoreProfile ==
    \E id \in issued :
        /\ \A k \in 1..Len(storeLog) : storeLog[k] # id
        /\ storeCollected(id)
        /\ req' = NoReq
        /\ UNCHANGED <<configVars, profilerVars, now, issued, task>>

\* storage.getProfile(id)
ApiGetProfile ==
    \E id \in Ids :
        /\ getProfile(id)
        /\ History("aged", <<>>)
        /\ last' = Result("getProfile", id, 0, "none", 0, getProfileFound(id), getProfileData(id))
        /\ req' = NoReq
        /\ UNCHANGED <<configVars, profilerVars, inProgress, timers, now, issued, task>>

\* storage.deleteProfile(id)
ApiDeleteProfile ==
    \E id \in Ids :
        /\ deleteProfile(id)
        /\ History("deleted", <<>>)
        /\ last' = Did("deleteProfile", id)
        /\ req' = NoReq
        /\ UNCHANGED <<configVars, profilerVars, inProgress, now, issued, task>>

\* storage.cleanup()
ApiCleanup ==
    /\ cleanup
    /\ History("cleanup", <<>>)
    /\ last' = [Did("cleanup", 0) EXCEPT !.wasInProgress = DOMAIN inProgress # {}]
    /\ req' = NoReq
    /\ UNCHANGED <<configVars, profilerVars, now, issued, task>>

StoreNext ==
    \/ ApiGenerateId
    \/ ApiMarkInProgress
    \/ ApiStoreProfile
    \/ ApiGetProfile
    \/ ApiDeleteProfile
    \/ ApiCleanup
    \/ TimerFires
    \/ Tick

StoreSpec == StoreInit /\ [][StoreNext]_vars

\* storage.storeProfile(id, data) for an identifier that was stored before:
\* nothing in storeProfile refuses it.
ApiStoreProfileAgain ==
    \E id \in issued :
        /\ \E k \in 1..Len(storeLog) : storeLog[k] = id
        /\ Len(storeLog) < MaxStores
        /\ storeCollected(id)
        /\ req' = NoReq
        /\ UNCHANGED <<configVars, profilerVars, now, issued, task>>

\* const id = storage.generateId(), for the sessions of this user.
ApiGenerateSessionId ==
    /\ Cardinality(issued) < MaxSessions
    /\ ApiGenerateId

RestoreNext ==
    \/ ApiGenerateSessionId
    \/ ApiStoreProfile
    \/ ApiStoreProfileAgain
    \/ ApiGetProfile
    \/ ApiDeleteProfile
    \/ TimerFires
    \/ Tick

\* A ProfileStorage instance whose user stores, reads and deletes records and
\* may store an identifier again.
RestoreSpec == StoreInit /\ [][RestoreNext]_vars

\* ------------------------------------------- actions on Profiler instances
\* What the actions below leave alone: the store and the sessions.
sessionVars == <<configVars, storeVars, now, issued, task, histVars>>

\* startHeapProfiling() of Profiler i: pprof.heap.start is invoked unless this
\* instance's flag is set.
startHeapProfiling(i) ==
    IF ~heapStarted[i]
    THEN /\ pprofHeap' = [sampling |-> TRUE, starts |-> pprofHeap.starts + 1]
         /\ heapStarted' = [heapStarted EXCEPT ![i] = TRUE]
    ELSE UNCHANGED <<pprofHeap, heapStarted>>

\* stopHeapProfiling() of Profiler i
stopHeapProfiling(i) ==
    IF heapStarted[i]
    THEN /\ pprofHeap' = [pprofHeap EXCEPT !.sampling = FALSE]
         /\ heapStarted' = [heapStarted EXCEPT ![i] = FALSE]
    ELSE UNCHANGED <<pprofHeap, heapStarted>>

\* createFlamegraphMiddleware(): new Profiler(...), whose flag is clear, then
\* profiler.startHeapProfiling().
CreateMiddleware ==
    /\ Len(heapStarted) < MaxProfilers
    /\ pprofHeap.starts < MaxHeapStarts
    /\ heapStarted' = Append(heapStarted, TRUE)
    /\ heapWaiting' = Append(heapWaiting, 0)
    /\ pprofHeap' = [sampling |-> TRUE, starts |-> pprofHeap.starts + 1]
    /\ last' = Did("createMiddleware", Len(heapStarted) + 1)
    /\ req' = NoReq
    /\ UNCHANGED sessionVars

\* profiler.stopHeapProfiling()
StopHeapProfiling ==
    \E i \in DOMAIN heapStarted :
        /\ stopHeapProfiling(i)
        /\ last' = Did("stopHeapProfiling", i)
        /\ req' = NoReq
        /\ UNCHANGED <<sessionVars, heapWaiting>>

\* profiler.collectProfiles(duration) up to its await: startHeapProfiling(),
\* then collectHeapProfile sets its timer.
CollectProfiles ==
    \E i \in DOMAIN heapStarted :
        /\ heapWaiting[i] < MaxWaiting
        /\ heapStarted[i] \/ pprofHeap.starts < MaxHeapStarts
        /\ startHeapProfiling(i)
        /\ heapWaiting' = [heapWaiting EXCEPT ![i] = @ + 1]
        /\ last' = Did("collectProfiles", i)
        /\ req' = NoReq
        /\ UNCHANGED sessionVars

\* A collectHeapProfile timer runs: pprof.heap.profile() takes the snapshot.
HeapProfile ==
    \E i \in DOMAIN heapStarted :
        /\ heapWaiting[i] > 0
        /\ heapWaiting' = [heapWaiting EXCEPT ![i] = @ - 1]
        /\ last' = Did("heapProfile", i)
        /\ req' = NoReq
        /\ UNCHANGED <<sessionVars, heapStarted, pprofHeap>>

ProfilerNext ==
    \/ CreateMiddleware
    \/ StopHeapProfiling
    \/ CollectProfiles
    \/ HeapProfile

\* A process that creates middlewares and drives their Profilers.
ProfilerSpec == ProfilerInit /\ [][ProfilerNext]_vars

\* ================================================================= claims
\* Where an identifier stands in the order of the storeProfile calls.
LogPos(id) == CHOOSE k \in 1..Len(storeLog) : storeLog[k] = id

\* The earliest-stored of the completed records the Map m holds.
EarliestStored(m) == {i \in MapKeys(m) : \A j \in MapKeys(m) : LogPos(i) <= LogPos(j)}

\* The identifiers getProfile would return data for now.
Retrievable == {i \in Ids : getProfileFound(i)}

\* C1: in every reachable state of the store, whatever the interleaving of
\* storeProfile, getProfile, deleteProfile, timer callbacks and cleanup, the
\* number of completed records is at most maxProfiles.
C1_CapacityBound == Len(profiles) <= maxProfiles

\* C1 witness: a storeProfile call at capacity evicted a record and left the
\* store exactly full, at the largest capacity of the model.
C1_Witness ==
    /\ last.op = "storeProfile" /\ last.evicted # {}
    /\ maxProfiles = MaxCapacity /\ Len(profiles) = maxProfiles

\* C2: a storeProfile call made with the record count at or above capacity
\* evicts exactly one record, the earliest-stored one still present, and a
\* call below capacity evicts nothing; and after exactly maxProfiles + 1
\* records were stored under distinct identifiers, with no record removed
\* otherwise and every record still within its time-to-live, exactly the
\* first-stored one is unretrievable.
C2_StoredBeyondCapacity ==
    (/\ Len(storeLog) = maxProfiles + 1
     /\ \A i \in Ids : removedBy[i] \in {"none", "evicted"}
     /\ \A i \in DOMAIN storedAt : now < storedAt[i] + profileTTL)
    => Retrievable = {storeLog[k] : k \in 2..Len(storeLog)}

C2_StoreStep ==
    storeLog' # storeLog =>
        MapKeys(profiles) \ MapKeys(profiles') =
            IF Len(profiles) >= maxProfiles THEN EarliestStored(profiles) ELSE {}

C2_EvictsOldestOnly == [](C2_StoredBeyondCapacity) /\ [][C2_StoreStep]_vars

\* C2 witness: maxProfiles + 1 records were stored at the largest capacity and
\* the last call evicted the first-stored one, the others being retrievable.
C2_Witness ==
    /\ maxProfiles = MaxCapacity
    /\ Len(storeLog) = maxProfiles + 1
    /\ last.op = "storeProfile" /\ last.evicted = {storeLog[1]}
    /\ Retrievable = {storeLog[k] : k \in 2..Len(storeLog)}

\* C3 (as claimed): a completed record stored at t0 that was not evicted,
\* deleted or torn down is returned by getProfile at every time t < t0 +
\* profileTTL and at no time t >= t0 + profileTTL, the instant t0 + profileTTL
\* included, whether or not its scheduled removal has run: a getProfile call
\* on a record the Map holds returns it exactly when now < t0 + profileTTL,
\* and time alone removes no record before t0 + profileTTL.
C3_ReturnedInWindow ==
    (last.op = "getProfile" /\ last.id \in DOMAIN storedAt)
    => (last.found <=> now < storedAt[last.id] + profileTTL)

C3_AgedStep ==
    \A i \in Ids :
        (MapHas(profiles, i) /\ ~MapHas(profiles', i) /\ removedBy'[i] = "aged")
        => now >= storedAt[i] + profileTTL

C3_TTLWindow == [](C3_ReturnedInWindow) /\ [][C3_AgedStep]_vars

\* C4: getProfile never returns a record at a time strictly greater than the
\* record's expiration timestamp (the time it was stored plus profileTTL),
\* even when the scheduled removal is late.
C4_NeverReturnedPastExpiry ==
    (last.op = "getProfile" /\ last.found)
    => /\ MapHas(profiles, last.id)
       /\ MapGet(profiles, last.id).expiresAt = storedAt[last.id] + profileTTL
       /\ now <= MapGet(profiles, last.id).expiresAt

\* C4 witness: getProfile refused a record past its expiration while the
\* record's scheduled removal was still pending (the timer is late).
C4_Witness ==
    /\ last.op = "getProfile" /\ ~last.found
    /\ removedBy[last.id] = "aged"
    /\ \E t \in timers : t.id = last.id /\ now > t.fireAt

rank(page) ==
    CASE page = "progress" -> 1
      [] page = "processing" -> 2
      [] page = "results" -> 3
      [] page = "notfound" -> 4
      [] OTHER -> 0

\* The protocol state a poll of id reports now.
pollRank(id) == rank(resultPage(id, TRUE).page)

\* C6: for an issued identifier the protocol state polls report only moves
\* forward in the order in-progress, processing, completed, expired/unknown:
\* no step takes the state a poll reports back to an earlier one, so no poll
\* reports a state earlier than one already reported.
C6_MonotoneStep == \A id \in issued : pollRank(id)' >= pollRank(id)

C6_PollsMonotone == [][C6_MonotoneStep]_vars

\* C6 witness: a poll reports expired/unknown for an identifier a start
\* issued, whose completed record aged out.
C6_Witness ==
    /\ last.op = "poll" /\ last.page = "notfound"
    /\ last.id \in issued /\ removedBy[last.id] = "aged"

\* C7: immediately after storeProfile(id, data) returns, isInProgress(id) is
\* false.
C7_NotInProgressAfterStore == last.op = "storeProfile" => ~isInProgress(last.id)

\* C7 witness: storeProfile returned for an identifier that was in progress,
\* in a call that also evicted a record.
C7_Witness == last.op = "storeProfile" /\ last.wasInProgress /\ last.evicted # {}

\* C8: a poll of an identifier in progress with now - startTime < duration
\* is answered 200 with the in-progress page advertising remaining =
\* duration - (now - startTime), which is > 0 and at most the duration.
C8_ProgressWhileRunning ==
    (/\ last.op = "poll" /\ isInProgress(last.id)
     /\ now - inProgress[last.id].startTime < inProgress[last.id].duration)
    => /\ last.status = 200 /\ last.page = "progress"
       /\ last.remaining = inProgress[last.id].duration - (now - inProgress[last.id].startTime)
       /\ last.remaining > 0
       /\ last.remaining <= inProgress[last.id].duration

\* C8 witness: a later poll in the window, advertising less than the
\* requested duration.
C8_Witness ==
    /\ last.op = "poll" /\ last.page = "progress" /\ isInProgress(last.id)
    /\ last.remaining < inProgress[last.id].duration
    /\ inProgress[last.id].startTime > 0

\* C9: a poll of an identifier in progress with now - startTime >= duration
\* is answered 202 with the processing page, never 200 and never 404.
C9_ProcessingAfterDuration ==
    (/\ last.op = "poll" /\ isInProgress(last.id)
     /\ now - inProgress[last.id].startTime >= inProgress[last.id].duration)
    => last.status = 202 /\ last.page = "processing"

\* C9 witness: the 202 page for a session whose collection failed and whose
\* duration elapsed some time ago.
C9_Witness ==
    /\ last.op = "poll" /\ last.status = 202
    /\ task[last.id].stage = "failed"
    /\ now - inProgress[last.id].startTime > inProgress[last.id].duration

\* C10 (as claimed): a poll of an identifier that is not in progress is
\* answered 200 with the rendered results if and only if getProfile returns a
\* record for it at that moment, and 404 otherwise.
C10_ResultsIffStored ==
    (last.op = "poll" /\ ~isInProgress(last.id))
    => IF getProfileFound(last.id)
       THEN last.status = 200 /\ last.page = "results"
       ELSE last.status = 404 /\ last.page = "notfound"

\* C10 (amended): a poll of an identifier that is not in progress is answered
\* 404 if and only if getProfile returns no record for it at that moment; when
\* getProfile returns a record the answer is 200 with that record rendered,
\* or 500 when generateResultsPage throws.
C10_ResultsErrorOrNotFound ==
    (last.op = "poll" /\ ~isInProgress(last.id))
    => IF getProfileFound(last.id)
       THEN \/ /\ last.status = 200 /\ last.page = "results"
               /\ last.data = MapGet(profiles, last.id).data
            \/ last.status = 500 /\ last.page = "error"
       ELSE last.status = 404 /\ last.page = "notfound"

\* C10 witness: a poll answered with the rendered results of a stored record.
C10_Witness ==
    /\ last.op = "poll" /\ last.status = 200 /\ last.page = "results"
    /\ getProfileFound(last.id) /\ task[last.id].stage = "stored"

C13_Rejected ==
    (last.op = "start" /\ last.query.kind \in {"garbage", "number"})
    => /\ last.query.kind = "garbage" => last.status = 400 /\ last.page = "invalid"
       /\ (last.query.kind = "number" /\ last.query.n <= 0)
              => last.status = 400 /\ last.page = "notpositive"
       /\ (last.query.kind = "number" /\ last.query.n > maxDuration)
              => last.status = 400 /\ last.page = "exceeds"

C13_RejectStep ==
    (last'.op = "start" /\ last'.status = 400)
    => UNCHANGED <<storeVars, issued, task>>

C14_DefaultDuration ==
    (/\ last.op = "start" /\ last.query.kind = "absent"
     /\ 0 < defaultDuration /\ defaultDuration <= maxDuration)
    => /\ last.status = 200 /\ last.page = "progress"
       /\ last.remaining = defaultDuration
       /\ isInProgress(last.id)
       /\ inProgress[last.id].duration = defaultDuration
       /\ inProgress[last.id].startTime = now

\* C14 witness: a start without parameter under a default below the ceiling.
C14_Witness ==
    /\ last.op = "start" /\ last.query.kind = "absent" /\ last.status = 200
    /\ defaultDuration < maxDuration
    /\ inProgress[last.id].duration = defaultDuration

\* The histories of C11: the identifier was never issued, or it was issued and
\* its completed record was evicted at capacity, or it was issued and its
\* completed record aged out (removed by its timer or by an expired read).
NeverIssued(id) == id \notin issued

EvictedByCapacity(id) == id \in issued /\ removedBy[id] = "evicted"

AgedOut(id) == id \in issued /\ removedBy[id] = "aged"

\* C11: a poll of a well-formed identifier is answered with one and the same
\* 404 representation (sendError('Profile not found or expired', 404), which
\* does not mention the identifier) whether the identifier was never issued,
\* was evicted at capacity or aged out: the response does not depend on which
\* of the three histories the identifier has.
C11_SameNotFound ==
    (/\ last.op = "poll"
     /\ NeverIssued(last.id) \/ EvictedByCapacity(last.id) \/ AgedOut(last.id))
    => last = Result("poll", last.id, 404, "notfound", 0, FALSE, NoData)

\* C11 witness: the 404 answers a poll of an evicted identifier in a state
\* where another identifier has aged out and a third was never issued.
C11_Witness ==
    /\ last.op = "poll" /\ last.status = 404 /\ EvictedByCapacity(last.id)
    /\ \E j \in Ids : AgedOut(j)
    /\ \E k \in Ids : NeverIssued(k)

\* The sessions whose collection is outstanding.
InFlight == {id \in Ids : task[id].stage \in {"collect", "encode"}}

\* C15: start never waits for the collection.  When the in-progress response
\* of an accepted start is sent, the session's collection has only been
\* launched (neither branch has finished, nothing was stored for the
\* identifier); no step both answers a start and stores a record; and while
\* collections are in flight a poll can be served, and a start too.
C15_ResponseFirst ==
    (last.op = "start" /\ last.status = 200)
    => /\ task[last.id].stage = "collect"
       /\ task[last.id].cpu = "running" /\ task[last.id].heap = "waiting"
       /\ isInProgress(last.id)
       /\ ~MapHas(profiles, last.id)
       /\ \A k \in 1..Len(storeLog) : storeLog[k] # last.id

C15_Served ==
    InFlight # {} =>
        /\ ENABLED PollRequest
        /\ Cardinality(issued) < MaxSessions => ENABLED StartRequest

C15_StartStep ==
    last'.op = "start" => storeLog' = storeLog /\ profiles' = profiles

C15_StartNeverWaits ==
    [](C15_ResponseFirst /\ C15_Served) /\ [][C15_StartStep]_vars

\* C15 witness: a second start is answered while the first session's
\* collection is in flight and nothing has been stored.
C15_Witness ==
    /\ last.op = "start" /\ last.status = 200
    /\ InFlight \ {last.id} # {}
    /\ storeLog = <<>>

\* C16: once CPU collection, heap collection or encoding has failed for a
\* session, its identifier stays in progress and never gets a completed
\* record (the failure is final: no later step stores it or removes the
\* in-progress record), and every poll of it at now - startTime >= duration
\* is answered 202 with the processing page.
C16_FailedInProgress ==
    \A id \in Ids : task[id].stage = "failed" =>
        /\ isInProgress(id)
        /\ ~MapHas(profiles, id)
        /\ \A k \in 1..Len(storeLog) : storeLog[k] # id

C16_FailedPoll ==
    (/\ last.op = "poll" /\ task[last.id].stage = "failed"
     /\ now - inProgress[last.id].startTime >= inProgress[last.id].duration)
    => last.status = 202 /\ last.page = "processing"

C16_FailedStep ==
    \A id \in Ids : task[id].stage = "failed" =>
        /\ task'[id].stage = "failed"
        /\ id \in DOMAIN inProgress' /\ inProgress'[id] = inProgress[id]

C17_OnlyWhileOutstanding ==
    \A id \in DOMAIN inProgress : task[id].stage \in {"collect", "encode"}

\* C17 (amended): wherever an identifier is in progress its collection has
\* not produced a completed result, and an identifier whose collection is
\* outstanding is in progress; the record is destroyed in the very step that
\* stores the completed result, while a failure leaves it in place.
C17_NotCompleted ==
    /\ \A id \in DOMAIN inProgress : task[id].stage \in {"collect", "encode", "failed"}
    /\ \A id \in InFlight : isInProgress(id)

C17_EndStep ==
    \A id \in InFlight :
        /\ task'[id].stage = "stored" => id \notin DOMAIN inProgress' /\ MapHas(profiles', id)
        /\ task'[id].stage = "failed" => id \in DOMAIN inProgress'
        /\ task'[id].stage \in {"collect", "encode"} => id \in DOMAIN inProgress'

C17_InProgressUntilStored == [](C17_NotCompleted) /\ [][C17_EndStep]_vars

\* C17 witness: one session's record was just destroyed by its storeProfile
\* call while a failed session's record is still there.
C17_Witness ==
    /\ last.op = "storeProfile" /\ last.wasInProgress /\ ~isInProgress(last.id)
    /\ \E j \in DOMAIN inProgress : task[j].stage = "failed"

\* The routes as the interface names them: a pathname lies under the base
\* path when it is the base path or continues it with "/"; the start route is
\* <base> or <base>/, a result route is <base>/result/<identifier>.
Under(p) == p = basePath \/ startsWith(p, basePath \o <<Slash>>)

IsStartRoute(p) == p = basePath \/ p = basePath \o <<Slash>>

IsResultRoute(p) ==
    /\ Len(p) = Len(basePath) + 4
    /\ startsWith(p, basePath \o <<Slash, Text("result"), Slash>>)
    /\ p[Len(p)].s = "hex"

\* C18 (as claimed): for every request whose pathname does not lie under the
\* base path the middleware invokes next() exactly once, writes no response,
\* and leaves the store unchanged: no identifier minted, no in-progress or
\* completed record added or removed, no collection launched.
C18_PassedOn ==
    (req # NoReq /\ ~Under(req.pathname))
    => last.op = "next" /\ last.next = 1 /\ last.status = 0

C18_Frame ==
    (req' # NoReq /\ ~Under(req'.pathname))
    => UNCHANGED <<storeVars, issued, task>>

C18_OutsideFallsThrough == [](C18_PassedOn) /\ [][C18_Frame]_vars

C19_Answered404 ==
    (/\ req # NoReq /\ Under(req.pathname)
     /\ ~IsStartRoute(req.pathname) /\ ~IsResultRoute(req.pathname))
    => /\ last.op = "unknown" /\ last.status = 404 /\ last.page = "unknownpath"
       /\ last.next = 0

C19_Frame ==
    (/\ req' # NoReq /\ Under(req'.pathname)
     /\ ~IsStartRoute(req'.pathname) /\ ~IsResultRoute(req'.pathname))
    => UNCHANGED <<storeVars, issued, task>>

C20_HeapStartedOnce ==
    /\ pprofHeap.starts <= 1
    /\ last.op = "heapProfile" => pprofHeap.starts >= 1

\* C21: within one session both collections are started before either one
\* finishes (while the collection is awaited the CPU profile is running or
\* done and the heap branch is waiting or done, never not yet started); the
\* completed record is stored only by the step that follows both collections
\* and both encodings, and a session in which one of them failed has nothing
\* stored.
C21_FanOut ==
    \A id \in Ids : task[id].stage = "collect" =>
        /\ task[id].cpu \in {"running", "done"}
        /\ task[id].heap \in {"waiting", "done"}
        /\ ~(task[id].cpu = "done" /\ task[id].heap = "done")

C21_StoredAfterBoth ==
    \A id \in Ids :
        /\ (MapHas(profiles, id) \/ \E k \in 1..Len(storeLog) : storeLog[k] = id)
               => task[id].stage = "stored" /\ task[id].cpu = "done" /\ task[id].heap = "done"
        /\ task[id].stage = "failed" => \A k \in 1..Len(storeLog) : storeLog[k] # id

C21_StoreStep ==
    \A id \in Ids :
        (~MapHas(profiles, id) /\ MapHas(profiles', id))
        => /\ task[id].stage = "encode" /\ task[id].cpu = "done" /\ task[id].heap = "done"
           /\ task'[id].stage = "stored"

C21_JoinBeforeStore == [](C21_FanOut /\ C21_StoredAfterBoth) /\ [][C21_StoreStep]_vars

\* C21 witness: a session was just stored with both of its branches done,
\* while another session, whose collection failed, has nothing stored.
C21_Witness ==
    /\ last.op = "storeProfile" /\ task[last.id].stage = "stored"
    /\ task[last.id].cpu = "done" /\ task[last.id].heap = "done"
    /\ \E j \in Ids : task[j].stage = "failed" /\ ~MapHas(profiles, j)

\* C22: immediately after cleanup(), from any reachable state, getProfile
\* returns no record for any identifier and isInProgress is false for every
\* identifier.
C22_EmptyAfterCleanup ==
    last.op = "cleanup" =>
        /\ \A id \in Ids : ~getProfileFound(id) /\ ~isInProgress(id)
        /\ profiles = <<>>

\* C22 witness: the cleanup removed a completed record and found identifiers
\* in progress.
C22_Witness ==
    /\ last.op = "cleanup" /\ last.wasInProgress
    /\ \E id \in Ids : removedBy[id] = "cleanup"

\* C23 (as claimed): after cleanup(), from any reachable state of the store,
\* no scheduled removal created before the cleanup remains pending.
C23_NoTimerAfterCleanup == last.op = "cleanup" => timers = {}

\* C27 (as claimed): a storeProfile call that evicts a record cancels that
\* record's pending timer in the same step, so that in every reachable state
\* every pending expiration timer is the timer of a record the Map holds and
\* none is left to fire for an evicted identifier.
C27_EvictionCancels ==
    storeLog' # storeLog =>
        \A t \in timers' : t.id \notin MapKeys(profiles) \ MapKeys(profiles')

C27_TimerHasRecord ==
    \A t \in timers : \E k \in 1..Len(profiles) : profiles[k].timeout = t.h

C27_TimerPerRecord == [][C27_EvictionCancels]_vars /\ [](C27_TimerHasRecord)

\* C24: deleteProfile(id) makes id unretrievable and cancels the pending timer
\* of that record; it leaves every other completed record, every other timer
\* and every in-progress record unchanged; and a call for an identifier that
\* has no record (a second call included) changes nothing.
C24_Unretrievable == last.op = "deleteProfile" => ~getProfileFound(last.id)

C24_DeleteStep ==
    last'.op = "deleteProfile" =>
        /\ ~MapHas(profiles', last'.id)
        /\ \A j \in Ids \ {last'.id} :
              /\ MapHas(profiles', j) <=> MapHas(profiles, j)
              /\ MapHas(profiles, j) => MapGet(profiles', j) = MapGet(profiles, j)
        /\ inProgress' = inProgress
        /\ timers' \subseteq timers
        /\ MapHas(profiles, last'.id) =>
              timers \ timers' = {t \in timers : t.h = MapGet(profiles, last'.id).timeout}
        /\ ~MapHas(profiles, last'.id) => UNCHANGED storeVars

C24_DeleteCancelsAndIsIdempotent == [](C24_Unretrievable) /\ [][C24_DeleteStep]_vars

\* C24 witness: a record was deleted before its expiry, no timer is pending
\* for it any more, and another record and its timer are still there.
C24_Witness ==
    /\ last.op = "deleteProfile" /\ removedBy[last.id] = "deleted"
    /\ \A t \in timers : t.id # last.id
    /\ Len(profiles) > 0
    /\ \E t \in timers : MapHas(profiles, t.id)

\* C25: after storeProfile(id, data), every getProfile(id) that finds the
\* record (before it expires, is evicted or deleted, or the store is cleaned
\* up) returns exactly the data stored under id, the same CPU and heap bytes,
\* however often it is read; and such a read leaves the stored record, and
\* the whole store, unchanged.
C25_ReturnsStored ==
    (last.op = "getProfile" /\ last.found)
    => /\ last.data.cpu = cpuBytes(last.id) /\ last.data.heap = heapBytes(last.id)
       /\ MapGet(profiles, last.id).data = last.data

C25_ReadStep ==
    (last'.op = "getProfile" /\ last'.found) => UNCHANGED <<storeVars, histVars>>

C25_NotFoundStep ==
    (last'.op = "getProfile" /\ ~last'.found /\ last'.id \in DOMAIN storedAt)
    => now > storedAt[last'.id] + profileTTL

C25_RoundTrip == [](C25_ReturnsStored) /\ [][C25_ReadStep /\ C25_NotFoundStep]_vars

\* C25 witness: a read some time after the store returns the stored bytes of
\* a record that is not the first entry of the Map.
C25_Witness ==
    /\ last.op = "getProfile" /\ last.found
    /\ Len(profiles) > 1 /\ profiles[1].id # last.id
    /\ now > storedAt[last.id]

\* C28: every completed record is eventually removed without any further
\* request: a record the store holds is eventually absent from it (the
\* timers that are due run; checked for the records whose expiry lies within
\* the time the model covers).
C28_RemovalScheduled ==
    \A k \in 1..Len(profiles) :
        \E t \in timers : t.h = profiles[k].timeout /\ t.id = profiles[k].id
                           /\ t.fireAt = profiles[k].expiresAt

C28_EventuallyRemoved ==
    /\ [](C28_RemovalScheduled)
    /\ \A id \in Ids :
        (MapHas(profiles, id) /\ MapGet(profiles, id).expiresAt <= MaxTime)
            ~> ~MapHas(profiles, id)

\* C28 witness: the timer of the last record ran and left the store empty.
C28_Witness ==
    /\ last.op = "timer" /\ removedBy[last.id] = "aged"
    /\ storeLog # <<>> /\ profiles = <<>>

\* C29 (as claimed): every accepted start whose CPU collection, heap
\* collection and encodings succeed eventually leaves the in-progress state
\* with its completed record stored (a session whose collection is
\* outstanding eventually is stored, unless it fails); after that a poll made
\* before expiry or eviction is answered with the completed representation,
\* and until then polls are answered only 200 in-progress or 202 processing.
C29_EventuallySettled ==
    \A id \in Ids :
        (id \in InFlight /\ heapDue(id) <= MaxTime)
            ~> (task[id].stage = "failed"
                \/ (task[id].stage = "stored" /\ ~isInProgress(id)
                    /\ \E k \in 1..Len(storeLog) : storeLog[k] = id))

C29_UntilStored ==
    (last.op = "poll" /\ last.id \in InFlight)
    => \/ last.status = 200 /\ last.page = "progress"
       \/ last.status = 202 /\ last.page = "processing"

C29_CompletedAfterStore ==
    (last.op = "poll" /\ task[last.id].stage = "stored" /\ getProfileFound(last.id))
    => last.status = 200 /\ last.page = "results"

C29_SuccessIsServed ==
    /\ [](C29_UntilStored /\ C29_CompletedAfterStore)
    /\ C29_EventuallySettled

\* C29 (amended): the same, except that the poll after the store is answered
\* with the completed representation, or with 500 when rendering the results
\* page throws.
C29_CompletedOrRenderError ==
    (last.op = "poll" /\ task[last.id].stage = "stored" /\ getProfileFound(last.id))
    => \/ last.status = 200 /\ last.page = "results" /\ last.data = payload(last.id)
       \/ last.status = 500 /\ last.page = "error"

C29_SuccessIsServedOrError ==
    /\ [](C29_UntilStored /\ C29_CompletedOrRenderError)
    /\ C29_EventuallySettled

\* C29 witness: a poll is answered with the results of a session that an
\* earlier step stored, at a time after the session's duration.
C29_Witness ==
    /\ last.op = "poll" /\ last.status = 200 /\ last.page = "results"
    /\ task[last.id].stage = "stored" /\ last.id \in issued
    /\ now > storedAt[last.id]

\* What storeLog records: no identifier twice.
StoredOnce ==
    \A j, k \in 1..Len(storeLog) : storeLog[j] = storeLog[k] => j = k

\* C30: for each session the in-progress record is removed at most once and
\* only by the successful completion store of that same session: storeProfile
\* is called at most once per issued identifier, always for an identifier a
\* start minted and marked in progress, never for one that was not started.
C30_StoredIsStarted ==
    /\ StoredOnce
    /\ \A k \in 1..Len(storeLog) :
          storeLog[k] \in issued /\ task[storeLog[k]].stage = "stored"

C30_RemovalStep ==
    /\ \A id \in DOMAIN inProgress \ DOMAIN inProgress' :
          /\ storeLog' = Append(storeLog, id)
          /\ task[id].stage = "encode" /\ task'[id].stage = "stored"
    /\ storeLog' # storeLog =>
          /\ Len(storeLog') = Len(storeLog) + 1
          /\ storeLog'[Len(storeLog')] \in DOMAIN inProgress \ DOMAIN inProgress'
    /\ \A id \in DOMAIN inProgress' \ DOMAIN inProgress :
          id \notin issued /\ \A k \in 1..Len(storeLog) : storeLog[k] # id

C30_RemovedOnceByItsStore == [](C30_StoredIsStarted) /\ [][C30_RemovalStep]_vars

\* C30 witness: two sessions were each stored once, in the order opposite to
\* the one they were started in.
C30_Witness ==
    /\ Len(storeLog) = 2 /\ storeLog[1] > storeLog[2]
    /\ DOMAIN inProgress = {}

\* C31: each accepted start launches exactly one collection attempt (one
\* pprof.time.profile call and one heap wait) for its identifier, and for no
\* other; a collection is launched only by the accepted start that minted the
\* identifier, so a failed collection is never launched again, neither by
\* itself nor by a later poll of that identifier.
C31_StartLaunchesOne ==
    (last'.op = "start" /\ last'.status = 200) =>
        /\ task[last'.id] = [stage |-> "none", cpu |-> "none", heap |-> "none"]
        /\ task'[last'.id] = [stage |-> "collect", cpu |-> "running", heap |-> "waiting"]
        /\ \A j \in Ids \ {last'.id} : task'[j] = task[j]

C31_LaunchedOnlyByStart ==
    \A id \in Ids :
        /\ (task'[id].stage = "collect" /\ task[id].stage # "collect")
               => /\ task[id].stage = "none" /\ id \notin issued
                  /\ last'.op = "start" /\ last'.status = 200 /\ last'.id = id
        /\ (task'[id].cpu = "running" /\ task[id].cpu # "running") => task[id].stage = "none"
        /\ (task'[id].heap = "waiting" /\ task[id].heap # "waiting") => task[id].stage = "none"
        /\ task[id].stage # "none" => task'[id].stage # "none"
        /\ task[id].stage = "failed" => task'[id] = task[id]

C31_PollLaunchesNothing == last'.op = "poll" => task' = task

C31_OneAttempt ==
    [][C31_StartLaunchesOne /\ C31_LaunchedOnlyByStart /\ C31_PollLaunchesNothing]_vars

\* C31 witness: a poll of a session whose collection failed found it still
\* failed, while the collection another start launched is running.
C31_Witness ==
    /\ last.op = "poll" /\ task[last.id].stage = "failed"
    /\ \E j \in Ids \ {last.id} : task[j].stage = "collect" /\ task[j].cpu = "running"

\* Whether getProfile returns a record for id from the Map m at time t.
FoundIn(m, id, t) == MapHas(m, id) /\ ~isExpired(MapGet(m, id), t)

\* C32 (as claimed): when rendering or another step of request handling
\* throws while a start or a poll is served, the response is 500 with the
\* handler's fixed message, independent of the error, and the store is left
\* unchanged: no record is added or removed, and a completed record whose
\* rendering failed is still retrievable by the next poll.
C32_GenericMessage ==
    last.status = 500 =>
        \/ last = [Result("start", 0, 500, "startfailed", 0, FALSE, NoData)
                      EXCEPT !.query = last.query]
        \/ last = Result("poll", last.id, 500, "error", 0, TRUE, NoData)

C32_StoreUntouched ==
    last'.status = 500 =>
        /\ UNCHANGED <<storeVars, issued, task>>
        /\ last'.op = "poll" => FoundIn(profiles', last'.id, now')

C32_ErrorIs500StoreUnchanged == [](C32_GenericMessage) /\ [][C32_StoreUntouched]_vars

\* C32, the part about polls alone.
C32_PollStoreUntouched ==
    (last'.status = 500 /\ last'.op = "poll") =>
        /\ UNCHANGED <<storeVars, issued, task>>
        /\ FoundIn(profiles', last'.id, now')

C32_PollErrorLeavesStore == [](C32_GenericMessage) /\ [][C32_PollStoreUntouched]_vars

\* Whether storeProfile was called for id.
WasStored(id) == \E k \in 1..Len(storeLog) : storeLog[k] = id

\* C33: a started session is never reported as unknown before it completes.
\* A poll of an identifier an accepted start returned is answered 404 only
\* after the session's completed record was stored and then expired, was
\* evicted or was deleted; an issued identifier is in neither Map only after
\* such a removal; and the step that removes the in-progress record is the
\* step that inserts the completed record, so no poll falls between them.
C33_NotFoundOnlyAfterRemoval ==
    (last.op = "poll" /\ last.status = 404 /\ last.id \in issued)
    => /\ WasStored(last.id)
       /\ removedBy[last.id] \in {"aged", "evicted", "deleted"}

C33_InSomeMap ==
    \A id \in issued :
        \/ isInProgress(id)
        \/ MapHas(profiles, id)
        \/ WasStored(id) /\ removedBy[id] \in {"aged", "evicted", "deleted"}

C33_AtomicStep ==
    \A id \in DOMAIN inProgress :
        id \notin DOMAIN inProgress' => MapHas(profiles', id) /\ FoundIn(profiles', id, now')

C33_NeverUnknownBeforeDone ==
    [](C33_NotFoundOnlyAfterRemoval /\ C33_InSomeMap) /\ [][C33_AtomicStep]_vars

\* C33 witness: a poll is answered 404 for a session whose stored record aged
\* out, while another started session is still in progress.
C33_Witness ==
    /\ last.op = "poll" /\ last.status = 404 /\ last.id \in issued
    /\ WasStored(last.id) /\ removedBy[last.id] = "aged"
    /\ DOMAIN inProgress # {}

\* C34 (as claimed): a scheduled removal only ever removes the record it was
\* scheduled together with: a timer callback that removes a completed record
\* is that record's own timer, and runs no earlier than the record's own
\* expiration timestamp, also when storeProfile was called again for an
\* identifier that already had a completed record.
C34_TimerStep ==
    \A t \in timers \ timers' :
        (last'.op = "timer" /\ MapHas(profiles, t.id) /\ ~MapHas(profiles', t.id))
        => /\ MapGet(profiles, t.id).timeout = t.h
           /\ now >= MapGet(profiles, t.id).expiresAt

C34_TimerRemovesItsOwnRecord == [][C34_TimerStep]_vars

\* C35: a rejected start (status 400) has no effect on the session state: its
\* step mints no identifier, creates no in-progress record, launches no
\* collection and leaves every in-progress record, every completed record and
\* every pending removal as it was; its response names no identifier.
C35_NoIdentifier == (last.op = "start" /\ last.status = 400) => last.id = 0

C35_RejectedStep ==
    (last'.op = "start" /\ last'.status = 400) =>
        /\ issued' = issued
        /\ inProgress' = inProgress
        /\ task' = task
        /\ profiles' = profiles /\ timers' = timers
        /\ UNCHANGED histVars

C35_RejectedStartNoEffect == [](C35_NoIdentifier) /\ [][C35_RejectedStep]_vars

\* C35 witness: a start with a duration of 0 or less was refused while the
\* store held a completed record.
C35_Witness ==
    /\ last.op = "start" /\ last.status = 400 /\ last.page = "notpositive"
    /\ Len(profiles) > 0

\* The in-progress record of session j is the same before and after the step.
SameInProgress(j) ==
    /\ j \in DOMAIN inProgress <=> j \in DOMAIN inProgress'
    /\ j \in DOMAIN inProgress => inProgress'[j] = inProgress[j]

\* C36: sessions in flight at the same time are independent.  Whatever the
\* other sessions do (fail, or stay in collection past their duration), a
\* session whose CPU profile is running can have it resolve, one whose heap
\* timer is due can take its snapshot, and one whose profiles are encoded can
\* be stored; a step of one session's collection changes no other session's
\* task and no other session's in-progress record; and a completion changes
\* the completed records of other sessions only by evicting the oldest one at
\* capacity.
C36_NotBlocked ==
    \A id \in Ids :
        /\ (task[id].stage = "collect" /\ task[id].cpu = "running")
              => ENABLED (CpuResolved /\ last'.id = id)
        /\ (task[id].stage = "collect" /\ task[id].heap = "waiting" /\ now >= heapDue(id))
              => ENABLED (HeapSnapshot /\ last'.id = id /\ task'[id].stage # "failed")
        /\ task[id].stage = "encode"
              => ENABLED (EncodedAndStored /\ last'.id = id)

C36_OwnStep ==
    \A id \in Ids : task'[id] # task[id] =>
        \A j \in Ids \ {id} : task'[j] = task[j] /\ SameInProgress(j)

C36_CompletionStep ==
    storeLog' # storeLog =>
        /\ \A j \in Ids \ {last'.id} :
              /\ SameInProgress(j)
              /\ MapHas(profiles', j) => MapHas(profiles, j) /\ MapGet(profiles', j) = MapGet(profiles, j)
              /\ (MapHas(profiles, j) /\ ~MapHas(profiles', j))
                    => Len(profiles) >= maxProfiles /\ profiles[1].id = j
        /\ timers \subseteq timers'
        /\ \A t \in timers' \ timers : t.id = last'.id

C36_SessionsIndependent ==
    [](C36_NotBlocked) /\ [][C36_OwnStep /\ C36_CompletionStep]_vars

\* C36 witness: a session was stored while a session started before it is
\* still collecting, past the time its own duration ended.
C36_Witness ==
    /\ last.op = "storeProfile" /\ task[last.id].stage = "stored"
    /\ \E j \in Ids : /\ j < last.id /\ task[j].stage = "collect"
                      /\ isInProgress(j) /\ now > heapDue(j)

\* C37: a session's completed record is never stored before its advertised
\* duration has elapsed since the collection was launched: the storeProfile
\* call for an identifier happens at a time >= startTime + duration; while an
\* in-progress record still has remaining time > 0 its session's heap branch
\* is still waiting (or the CPU collection has already failed) and nothing is
\* stored for it; so a poll never shows the
\* completed representation of a session whose remaining time is > 0.
C37_StoreStep ==
    \A id \in Ids :
        (~MapHas(profiles, id) /\ MapHas(profiles', id))
        => /\ id \in DOMAIN inProgress
           /\ now >= inProgress[id].startTime + inProgress[id].duration

C37_WaitingWhileRemaining ==
    \A id \in DOMAIN inProgress :
        inProgress[id].duration - (now - inProgress[id].startTime) > 0
        => /\ \/ task[id].stage = "collect" /\ task[id].heap = "waiting"
              \/ task[id].stage = "failed"
           /\ ~MapHas(profiles, id)
           /\ \A k \in 1..Len(storeLog) : storeLog[k] # id

C37_ResultsOnlyAfter ==
    (last.op = "poll" /\ last.page = "results")
    => /\ ~isInProgress(last.id)
       /\ task[last.id].stage = "stored"
       /\ task[last.id].heap = "done"

C37_NeverStoredEarly ==
    [](C37_WaitingWhileRemaining /\ C37_ResultsOnlyAfter) /\ [][C37_StoreStep]_vars

\* C37 witness: a session was just stored, while another session, whose CPU
\* profile is already done, still has remaining time and waits for its heap
\* branch.
C37_Witness ==
    /\ last.op = "storeProfile" /\ last.wasInProgress
    /\ \E j \in DOMAIN inProgress :
          /\ inProgress[j].duration - (now - inProgress[j].startTime) > 0
          /\ task[j].cpu = "done" /\ task[j].heap = "waiting"

====
